---- MODULE Spec2Model ----
(***************************************************************************)
(* COVID-19 dashboard: the collector (data_collector.py), the processor    *)
(* (data_preprocessing.py) and the dashboard script (dashboard.py).        *)
(*                                                                         *)
(* Representation.                                                         *)
(*   - A wide table (one CSV as pandas reads it) is a record               *)
(*     [columns, rows]: columns is the header, four fixed columns followed *)
(*     by one date label per date column; a row is the tuple of its cells  *)
(*     <<province, country, lat, long, v1, ..., vn>>.                      *)
(*   - A country is the rank of its name in string order (pandas sorts     *)
(*     group keys and sort_values keys by that order).                     *)
(*   - A date label is the header text m/d/yy, kept as [m, d, y];          *)
(*     pd.to_datetime turns it into a Timestamp, kept as <<Y, M, D>>;      *)
(*     strftime('%Y-%m-%d') turns a Timestamp into ten characters.         *)
(*   - A long table (a DataFrame) is a sequence of rows, each a function   *)
(*     from column names to cells.  Until fillna(0) and astype(int) a     *)
(*     count cell may be missing: it is <<v>>, or NaN when missing.        *)
(*   - A percentage rounded to two decimals is kept in hundredths of a     *)
(*     percent (33.33 is 3333).                                            *)
(*   - None is <<>>, a value x that may be None is <<x>>.                  *)
(***************************************************************************)
EXTENDS Integers, Sequences, FiniteSets, TLC

VARIABLES
  pc,         \* download_data: "download" inside its loop, "returned" after
  idx,        \* download_data: index in Keys of the next file
  data_dict,  \* download_data: its local dictionary (empty outside the call)
  attempted,  \* download_data: the files tried so far, each with its outcome
  raw_data,   \* what get_latest_data returned: None or <<dictionary>>
  disk,       \* names of the files written
  processor,  \* None, or <<[raw_data, processed_data]>>: a CovidDataProcessor
  loaded,     \* st.cache_data entry of load_data: "no", "failed" (None), "ok"
  view,       \* what the last run of main put on the page
  last        \* the last call made and how it ended

vars == <<pc, idx, data_dict, attempted, raw_data, disk, processor,
          loaded, view, last>>

(***************************************************************************)
(* Bounds of the model.                                                    *)
(***************************************************************************)
\* cells of the structure family hold 0..MaxVal
MaxVal == 1
\* cells of the value family hold 0..MaxCount
MaxCount == 5
\* countries of the many-country family
NumCountries == 11

(***************************************************************************)
(* Program constants.                                                      *)
(***************************************************************************)
\* df.columns[4:]: the date columns start after four fixed columns
FirstDateCol == 4
\* len(selected_countries) > 10, selected_countries[:10]
MaxSelected == 10
\* two-digit years are read as 20yy
Century == 2000

None == <<>>
Some(x) == <<x>>
NaN == <<>>

Keys == <<"confirmed", "deaths", "recovered">>
MetaCols == <<"Province/State", "Country/Region", "Lat", "Long">>

(***************************************************************************)
(* Generic sequence helpers.                                               *)
(***************************************************************************)
Range(s) == {s[i] : i \in DOMAIN s}

RECURSIVE SumSeq(_)
SumSeq(s) == IF s = <<>> THEN 0 ELSE Head(s) + SumSeq(Tail(s))

RECURSIVE SetToSortedSeq(_)
SetToSortedSeq(S) ==
  IF S = {} THEN <<>>
  ELSE LET m == CHOOSE x \in S : \A y \in S : x <= y
       IN  <<m>> \o SetToSortedSeq(S \ {m})

RECURSIVE Flatten(_)
Flatten(ss) == IF ss = <<>> THEN <<>> ELSE Head(ss) \o Flatten(Tail(ss))

(***************************************************************************)
(* Dates.                                                                  *)
(***************************************************************************)
\* pd.to_datetime on a header label m/d/yy
ToDatetime(label) == <<Century + label.y, label.m, label.d>>

DateLT(a, b) ==
  \/ a[1] < b[1]
  \/ a[1] = b[1] /\ a[2] < b[2]
  \/ a[1] = b[1] /\ a[2] = b[2] /\ a[3] < b[3]

DateLE(a, b) == a = b \/ DateLT(a, b)

\* Timestamp.strftime('%Y-%m-%d'): zero-padded digits with dashes
Strftime(ts) ==
  << ts[1] \div 1000, (ts[1] \div 100) % 10, (ts[1] \div 10) % 10, ts[1] % 10, "-",
     ts[2] \div 10, ts[2] % 10, "-", ts[3] \div 10, ts[3] % 10 >>

MaxDate(df) ==
  LET D == {df[i].Date : i \in DOMAIN df}
  IN  CHOOSE d \in D : \A e \in D : DateLE(e, d)

(***************************************************************************)
(* _transform_data: wide to long.                                          *)
(***************************************************************************)
DateColsOf(df) == SubSeq(df.columns, FirstDateCol + 1, Len(df.columns))

\* df.groupby('Country/Region')[date_cols].sum(): one row per country, in
\* key order, each date column summed over the country's rows
\* a slip: the country's first row instead of the sum of its rows
GroupFirst(rows, country, col) ==
  LET mine == {i \in DOMAIN rows : rows[i][2] = country}
  IN  rows[CHOOSE i \in mine : \A j \in mine : i <= j][FirstDateCol + col]

GroupSum(rows, country, col) ==
  SumSeq([i \in DOMAIN rows |->
            IF rows[i][2] = country THEN rows[i][FirstDateCol + col] ELSE 0])

GroupByCountrySum(df) ==
  LET cs == SetToSortedSeq({df.rows[i][2] : i \in DOMAIN df.rows})
      n  == Len(DateColsOf(df))
  IN  [i \in DOMAIN cs |->
         [country |-> cs[i],
          sums    |-> [j \in 1..n |-> GroupSum(df.rows, cs[i], j)]]]

\* reset_index, melt (column by column, countries in order within a column),
\* rename, to_datetime
TransformData(df, value_name) ==
  LET cd   == GroupByCountrySum(df)
      cols == DateColsOf(df)
      n    == Len(cd)
  IN  [k \in 1..(n * Len(cols)) |->
         LET j == ((k - 1) \div n) + 1
             i == ((k - 1) % n) + 1
         IN  ("Country" :> cd[i].country) @@
             ("Date" :> ToDatetime(cols[j])) @@
             (value_name :> <<cd[i].sums[j]>>)]

(***************************************************************************)
(* DataFrame operations used by process_global_data.                       *)
(***************************************************************************)
SameKey(a, b) == a.Country = b.Country /\ a.Date = b.Date

KeyLE(a, b) ==
  \/ a.Country < b.Country
  \/ a.Country = b.Country /\ DateLE(a.Date, b.Date)

\* stable insertion of x after the last row whose key is <= x's
InsertSorted(s, x) ==
  LET before == {i \in DOMAIN s : KeyLE(s[i], x)}
      p      == IF before = {} THEN 0
                ELSE CHOOSE i \in before : \A j \in before : j <= i
  IN  SubSeq(s, 1, p) \o <<x>> \o SubSeq(s, p + 1, Len(s))

RECURSIVE InsertionSort(_, _)
InsertionSort(done, todo) ==
  IF todo = <<>> THEN done
  ELSE InsertionSort(InsertSorted(done, Head(todo)), Tail(todo))

\* df.sort_values(['Country', 'Date'])
SortValues(df) == InsertionSort(<<>>, df)

NaNCols(cols) == [c \in cols |-> NaN]

\* a slip: how='left', which drops the rows only the right side has
MergeLeft(left, right, lcols, rcols) ==
  LET matchesOf(i) == SetToSortedSeq({j \in DOMAIN right : SameKey(left[i], right[j])})
  IN  InsertionSort(<<>>,
        Flatten([i \in DOMAIN left |->
                   IF matchesOf(i) = <<>>
                   THEN << left[i] @@ NaNCols(rcols) >>
                   ELSE [m \in DOMAIN matchesOf(i) |->
                           left[i] @@ right[matchesOf(i)[m]]]]))

\* left.merge(right, on=['Country', 'Date'], how='outer'): every matching
\* pair of rows, every unmatched left row and every unmatched right row, the
\* columns of the other side missing; keys in sorted order
MergeOuter(left, right, lcols, rcols) ==
  LET matchesOf(i) == SetToSortedSeq({j \in DOMAIN right : SameKey(left[i], right[j])})
      leftPart ==
        Flatten([i \in DOMAIN left |->
                   IF matchesOf(i) = <<>>
                   THEN << left[i] @@ NaNCols(rcols) >>
                   ELSE [m \in DOMAIN matchesOf(i) |->
                           left[i] @@ right[matchesOf(i)[m]]]])
      orphans == SetToSortedSeq({j \in DOMAIN right :
                                   \A i \in DOMAIN left : ~SameKey(left[i], right[j])})
      rightPart == [m \in DOMAIN orphans |-> right[orphans[m]] @@ NaNCols(lcols)]
  IN  SortValues(leftPart \o rightPart)

\* df.fillna(0) followed by astype(int) on the three count columns
FillNa0(cell) == IF cell = NaN THEN 0 ELSE cell[1]

FillCounts(df) ==
  [i \in DOMAIN df |->
     [df[i] EXCEPT !["confirmed"] = FillNa0(@),
                   !["deaths"]    = FillNa0(@),
                   !["recovered"] = FillNa0(@)]]

\* a slip: no clip
NoClip(x) == x

\* Series.clip(lower=0)
ClipLower0(x) == IF x < 0 THEN 0 ELSE x

\* a slip: df[col].diff() without the groupby, across countries
PlainDiff(df, col, i) ==
  IF i = 1 THEN NaN ELSE <<df[i][col] - df[i - 1][col]>>

\* df.groupby('Country')[col].diff(): the difference to the previous row of
\* the same country in frame order, missing on the country's first row
GroupDiff(df, col, i) ==
  LET prev == {j \in 1..(i - 1) : df[j].Country = df[i].Country}
  IN  IF prev = {} THEN NaN
      ELSE LET p == CHOOSE j \in prev : \A k \in prev : k <= j
           IN  <<df[i][col] - df[p][col]>>

\* round half to even of num/den, num >= 0, den > 0
RoundHalfEven(num, den) ==
  LET q == num \div den
      r == num % den
  IN  IF 2 * r < den THEN q
      ELSE IF 2 * r > den THEN q + 1
      ELSE IF q % 2 = 0 THEN q ELSE q + 1

\* a slip: the percentage cut to two decimals instead of rounded
RateTruncated(part, confirmed) ==
  IF confirmed > 0 THEN (10000 * part) \div confirmed ELSE 0

\* np.where(confirmed > 0, (part / confirmed * 100).round(2), 0), in
\* hundredths of a percent
RatePct(part, confirmed) ==
  IF confirmed > 0 THEN RoundHalfEven(10000 * part, confirmed) ELSE 0

\* a slip: the recovered are not taken off
ActiveWithoutRecovered(confirmed, deaths, recovered) ==
  ClipLower0(confirmed - deaths)

\* df['confirmed'] - df['deaths'] - df['recovered'], clipped
Active(confirmed, deaths, recovered) ==
  ClipLower0(confirmed - deaths - recovered)

\* the derived columns of one row of the sorted, filled frame
DerivedRow(df, i) ==
  LET r  == df[i]
      dc == GroupDiff(df, "confirmed", i)
      dd == GroupDiff(df, "deaths", i)
  IN  r @@
      [daily_confirmed |-> ClipLower0(IF dc = NaN THEN 0 ELSE dc[1]),
       daily_deaths    |-> ClipLower0(IF dd = NaN THEN 0 ELSE dd[1]),
       fatality_rate   |-> RatePct(r.deaths, r.confirmed),
       recovery_rate   |-> RatePct(r.recovered, r.confirmed),
       active          |-> Active(r.confirmed, r.deaths, r.recovered)]

(***************************************************************************)
(* process_global_data.                                                    *)
(***************************************************************************)
ProcessGlobalData(raw) ==
  LET confirmed == TransformData(raw["confirmed"], "confirmed")
      deaths    == TransformData(raw["deaths"], "deaths")
      recovered == TransformData(raw["recovered"], "recovered")
      m1 == MergeOuter(confirmed, deaths, {"confirmed"}, {"deaths"})
      m2 == MergeOuter(m1, recovered, {"confirmed", "deaths"}, {"recovered"})
      df == SortValues(FillCounts(m2))
  IN  [i \in DOMAIN df |-> DerivedRow(df, i)]

(***************************************************************************)
(* get_country_summary, get_global_summary.                                *)
(***************************************************************************)
\* a slip: no filter on the date
AllRows(df, date) == df

\* df[df['Date'] == date]
RowsOn(df, date) == SelectSeq(df, LAMBDA r : r.Date = date)

Column(df, col) == [i \in DOMAIN df |-> df[i][col]]

GlobalSummary(df) ==
  LET latest_date == MaxDate(df)
      latest_data == RowsOn(df, latest_date)
  IN  [date            |-> Strftime(latest_date),
       total_confirmed |-> SumSeq(Column(latest_data, "confirmed")),
       total_deaths    |-> SumSeq(Column(latest_data, "deaths")),
       total_recovered |-> SumSeq(Column(latest_data, "recovered")),
       total_active    |-> SumSeq(Column(latest_data, "active")),
       countries       |-> Len(latest_data)]

\* get_country_summary's frame: the rows of the date, by confirmed
\* descending; rows of equal confirmed may come in either order
RECURSIVE SortedByConfirmedDesc(_)
SortedByConfirmedDesc(S) ==
  IF S = {} THEN {<<>>}
  ELSE LET top == {r \in S : \A q \in S : q.confirmed <= r.confirmed}
       IN  UNION {{<<r>> \o t : t \in SortedByConfirmedDesc(S \ {r})} : r \in top}

CountrySummaries(df, date) ==
  LET d == IF date = None THEN MaxDate(df) ELSE date[1]
  IN  SortedByConfirmedDesc(Range(RowsOn(df, d)))

(***************************************************************************)
(* Inputs: the three CSV files the server holds.                           *)
(***************************************************************************)
Label(m, d) == [m |-> m, d |-> d, y |-> 20]
L1 == Label(1, 9)
L2 == Label(1, 10)
L3 == Label(2, 1)

Wide(labels, rows) == [columns |-> MetaCols \o labels, rows |-> rows]
Cells(province, country, vals) == <<province, country, 0, 0>> \o vals

\* one country, one date, one province row
Single(label, country, v) == Wide(<<label>>, <<Cells(0, country, <<v>>)>>)

\* two rows (two provinces of one country, or two countries), two dates in
\* either column order
TwoByTwo ==
  { Wide(h, <<Cells(1, 1, <<a, b>>), Cells(k, k, <<c, d>>)>>) :
      h \in {<<L1, L2>>, <<L2, L1>>}, k \in 1..2,
      a \in 0..MaxVal, b \in 0..MaxVal, c \in 0..MaxVal, d \in 0..MaxVal }

Small == { Single(L2, 1, MaxVal), Single(L3, 2, MaxVal) }

\* the structure family: one indicator's table is two by two, the other two
\* are single cells that may name another country or another date
StructInputs ==
  { [confirmed |-> x, deaths |-> y, recovered |-> z] :
      x \in TwoByTwo, y \in Small, z \in Small } \cup
  { [confirmed |-> y, deaths |-> x, recovered |-> z] :
      x \in TwoByTwo, y \in Small, z \in Small } \cup
  { [confirmed |-> y, deaths |-> z, recovered |-> x] :
      x \in TwoByTwo, y \in Small, z \in Small }

\* the value family: one country on one date, any three counts
ValueInputs ==
  { [confirmed |-> Single(L1, 1, c), deaths |-> Single(L1, 1, d),
     recovered |-> Single(L1, 1, r)] :
      c \in 0..MaxCount, d \in 0..MaxCount, r \in 0..MaxCount }

\* the many-country family: NumCountries countries on one date
ManyTable(counts) ==
  Wide(<<L1>>, [k \in 1..NumCountries |-> Cells(0, k, <<counts[k]>>)])

ManyInputs ==
  { [confirmed |-> ManyTable([k \in 1..NumCountries |-> k + 1]),
     deaths    |-> ManyTable([k \in 1..NumCountries |-> 1]),
     recovered |-> ManyTable([k \in 1..NumCountries |-> 2])] }

RemoteInputs == StructInputs \cup ValueInputs \cup ManyInputs

(***************************************************************************)
(* CovidDataCollector.download_data, one loop iteration per step.          *)
(***************************************************************************)
FileOf(key) ==
  CASE key = "confirmed" -> "time_series_covid19_confirmed_global.csv"
    [] key = "deaths"    -> "time_series_covid19_deaths_global.csv"
    [] key = "recovered" -> "time_series_covid19_recovered_global.csv"

EmptyDict == [k \in {} |-> {}]

NoView == [status |-> "none", multiselect |-> <<>>, selected_countries |-> <<>>,
           chart_rows |-> <<>>, global_summary |-> None]

Called(op, outcome, value) == [op |-> op, outcome |-> outcome, value |-> value]

Init ==
  /\ pc = "download"
  /\ idx = 1
  /\ data_dict = EmptyDict
  /\ attempted = <<>>
  /\ raw_data = None
  /\ disk = {}
  /\ processor = None
  /\ loaded = "no"
  /\ view = NoView
  /\ last = Called("none", "ok", None)

Tried(key, outcome) == [key |-> key, outcome |-> outcome]

\* what the server may hold for key, given the files read so far
Served(dict, key) ==
  { r[key] : r \in { q \in RemoteInputs : \A k \in DOMAIN dict : q[k] = dict[k] } }

\* pd.read_csv and df.to_csv both succeed; after the last file the
\* dictionary is returned
DownloadOk ==
  /\ pc = "download"
  /\ \E df \in Served(data_dict, Keys[idx]) :
       LET key  == Keys[idx]
           dict == data_dict @@ (key :> df)
       IN  /\ disk' = disk \cup {FileOf(key)}
           /\ attempted' = Append(attempted, Tried(key, "ok"))
           /\ IF idx = Len(Keys)
              THEN /\ pc' = "returned"
                   /\ raw_data' = Some(dict)
                   /\ data_dict' = EmptyDict
                   /\ idx' = idx
              ELSE /\ pc' = "download"
                   /\ raw_data' = raw_data
                   /\ data_dict' = dict
                   /\ idx' = idx + 1
  /\ last' = Called("download_data", "ok", None)
  /\ UNCHANGED <<processor, loaded, view>>

\* a slip: the failure is logged and the loop goes on to the next file
DownloadFetchFailsAndContinues ==
  /\ pc = "download"
  /\ attempted' = Append(attempted, Tried(Keys[idx], "fetch_failed"))
  /\ IF idx = Len(Keys)
     THEN /\ pc' = "returned"
          /\ raw_data' = Some(data_dict)
          /\ data_dict' = EmptyDict
          /\ idx' = idx
     ELSE /\ pc' = "download"
          /\ raw_data' = raw_data
          /\ data_dict' = data_dict
          /\ idx' = idx + 1
  /\ last' = Called("download_data", "fetch_failed", None)
  /\ UNCHANGED <<disk, processor, loaded, view>>

\* pd.read_csv raises: the except clause returns None
DownloadFetchFails ==
  /\ pc = "download"
  /\ attempted' = Append(attempted, Tried(Keys[idx], "fetch_failed"))
  /\ pc' = "returned"
  /\ raw_data' = None
  /\ data_dict' = EmptyDict
  /\ last' = Called("download_data", "fetch_failed", None)
  /\ UNCHANGED <<idx, disk, processor, loaded, view>>

\* df.to_csv raises after data_dict[key] = df: the except clause returns
\* None; the file may or may not have been created before the failure
DownloadSaveFails ==
  /\ pc = "download"
  /\ attempted' = Append(attempted, Tried(Keys[idx], "save_failed"))
  /\ pc' = "returned"
  /\ raw_data' = None
  /\ data_dict' = EmptyDict
  /\ disk' \in {disk, disk \cup {FileOf(Keys[idx])}}
  /\ last' = Called("download_data", "save_failed", None)
  /\ UNCHANGED <<idx, processor, loaded, view>>

(***************************************************************************)
(* CovidDataProcessor, called by a client (as data_preprocessing.py's main  *)
(* block does) in any order.                                               *)
(***************************************************************************)
Processed == processor # None /\ processor[1].processed_data # None

\* CovidDataProcessor(raw_data), by a client that is not the dashboard
Construct ==
  /\ pc = "returned"
  /\ raw_data # None
  /\ loaded = "no"
  /\ view = NoView
  /\ processor = None
  /\ processor' = Some([raw_data |-> raw_data[1], processed_data |-> None])
  /\ last' = Called("__init__", "ok", None)
  /\ UNCHANGED <<pc, idx, data_dict, attempted, raw_data, disk, loaded, view>>

ProcessCall ==
  /\ loaded = "no"
  /\ processor # None
  /\ LET df == ProcessGlobalData(processor[1].raw_data)
     IN  /\ processor' = Some([processor[1] EXCEPT !.processed_data = Some(df)])
         /\ last' = Called("process_global_data", "ok", None)
  /\ UNCHANGED <<pc, idx, data_dict, attempted, raw_data, disk, loaded, view>>

DatesOf(df) == {df[i].Date : i \in DOMAIN df}

MinDate(df) ==
  CHOOSE d \in DatesOf(df) : \A e \in DatesOf(df) : DateLE(d, e)

GetCountrySummary ==
  /\ loaded = "no"
  /\ processor # None
  /\ IF ~Processed
     THEN last' = Called("get_country_summary", "ValueError", None)
     ELSE \E date \in {None, Some(MinDate(processor[1].processed_data[1])),
                      Some(ToDatetime(L3))} :
          \E summary \in CountrySummaries(processor[1].processed_data[1], date) :
            last' = Called("get_country_summary", "ok", summary)
  /\ UNCHANGED <<pc, idx, data_dict, attempted, raw_data, disk, processor,
                 loaded, view>>

\* a slip: no check of processed_data, None['Date'] raises TypeError
GetGlobalSummaryUnguarded ==
  /\ loaded = "no"
  /\ processor # None
  /\ IF ~Processed
     THEN last' = Called("get_global_summary", "TypeError", None)
     ELSE last' = Called("get_global_summary", "ok",
                         GlobalSummary(processor[1].processed_data[1]))
  /\ UNCHANGED <<pc, idx, data_dict, attempted, raw_data, disk, processor,
                 loaded, view>>

GetGlobalSummary ==
  /\ loaded = "no"
  /\ processor # None
  /\ IF ~Processed
     THEN last' = Called("get_global_summary", "ValueError", None)
     ELSE last' = Called("get_global_summary", "ok",
                         GlobalSummary(processor[1].processed_data[1]))
  /\ UNCHANGED <<pc, idx, data_dict, attempted, raw_data, disk, processor,
                 loaded, view>>

OutputNames == {"processed_covid_data.csv"}

\* to_csv may itself fail (the directory of the name may not exist), with
\* the file created or not
SaveProcessedData ==
  /\ loaded = "no"
  /\ processor # None
  /\ IF ~Processed
     THEN /\ last' = Called("save_processed_data", "ValueError", None)
          /\ disk' = disk
     ELSE \E filename \in OutputNames :
            \/ /\ disk' = disk \cup {filename}
               /\ last' = Called("save_processed_data", "ok", None)
            \/ /\ disk' \in {disk, disk \cup {filename}}
               /\ last' = Called("save_processed_data", "OSError", None)
  /\ UNCHANGED <<pc, idx, data_dict, attempted, raw_data, processor,
                 loaded, view>>

(***************************************************************************)
(* dashboard.py                                                            *)
(***************************************************************************)
\* load_data after get_latest_data has returned; its result is cached
LoadData ==
  /\ pc = "returned"
  /\ loaded = "no"
  /\ processor = None
  /\ IF raw_data = None
     THEN /\ loaded' = "failed"
          /\ processor' = processor
          /\ last' = Called("load_data", "ok", None)
     ELSE LET df == ProcessGlobalData(raw_data[1])
          IN  /\ loaded' = "ok"
              /\ processor' = Some([raw_data |-> raw_data[1], processed_data |-> Some(df)])
              /\ last' = Called("load_data", "ok", None)
  /\ UNCHANGED <<pc, idx, data_dict, attempted, raw_data, disk, view>>

\* sorted(df['Country'].unique())
CountriesOf(df) == SetToSortedSeq({df[i].Country : i \in DOMAIN df})

\* what the multiselect may hold: options in the order they were picked
Rotate(s, k) == [i \in DOMAIN s |-> s[((i + k - 1) % Len(s)) + 1]]

Selections(options) ==
  { SubSeq(Rotate(options, k), 1, n) : k \in 0..(Len(options) - 1), n \in 0..Len(options) }

\* what the date_input may hold: a range, or its start alone while the
\* user is picking
DateRanges(df) ==
  { <<MinDate(df), MaxDate(df)>>, <<MaxDate(df), MaxDate(df)>>, <<MaxDate(df)>> }

\* a slip: the last ten instead of the first ten
CapSelectionLast(selected) ==
  IF Len(selected) > MaxSelected
  THEN SubSeq(selected, Len(selected) - MaxSelected + 1, Len(selected))
  ELSE selected

\* if len(selected_countries) > 10: selected_countries = selected_countries[:10]
CapSelection(selected) ==
  IF Len(selected) > MaxSelected THEN SubSeq(selected, 1, MaxSelected) ELSE selected

\* filtered_df[filtered_df['Country'].isin(selected_countries)] after the
\* date mask
CountryDf(df, date_range, selected) ==
  LET filtered_df ==
        IF Len(date_range) = 2
        THEN SelectSeq(df, LAMBDA r : DateLE(date_range[1], r.Date)
                                      /\ DateLE(r.Date, date_range[2]))
        ELSE df
  IN  SelectSeq(filtered_df, LAMBDA r : r.Country \in Range(selected))

ResetSession ==
  /\ pc' = "download"
  /\ idx' = 1
  /\ data_dict' = EmptyDict
  /\ attempted' = <<>>
  /\ raw_data' = None
  /\ processor' = None
  /\ loaded' = "no"

\* one run of the script with load_data's result cached, for what the
\* widgets hold in that run; the refresh button clears the cache and reruns.
\* The ranking tables drawn after the comparison charts read the processor
\* and change nothing.
Main ==
  /\ loaded # "no"
  /\ IF loaded = "failed"
     THEN /\ view' = [NoView EXCEPT !.status = "stopped"]
          /\ last' = Called("main", "stopped", None)
          /\ UNCHANGED <<pc, idx, data_dict, attempted, raw_data, processor, loaded>>
     ELSE LET df == processor[1].processed_data[1]
          IN  \E multiselect \in Selections(CountriesOf(df)) :
              \E date_range \in DateRanges(df) :
              \E refresh \in BOOLEAN :
                LET selected_countries == CapSelection(multiselect)
                IN  IF refresh
                    THEN /\ ResetSession
                         /\ view' = [NoView EXCEPT !.status = "rerun"]
                         /\ last' = Called("main", "rerun", None)
                    ELSE /\ view' =
                              [status             |-> "rendered",
                               multiselect        |-> multiselect,
                               selected_countries |-> selected_countries,
                               chart_rows         |->
                                 IF selected_countries # <<>>
                                 THEN CountryDf(df, date_range, selected_countries)
                                 ELSE <<>>,
                               global_summary     |-> Some(GlobalSummary(df))]
                         /\ last' = Called("main", "ok", None)
                         /\ UNCHANGED <<pc, idx, data_dict, attempted, raw_data,
                                        processor, loaded>>
  /\ UNCHANGED disk

Next ==
  \/ DownloadOk
  \/ DownloadFetchFails
  \/ DownloadSaveFails
  \/ Construct
  \/ ProcessCall
  \/ GetCountrySummary
  \/ GetGlobalSummary
  \/ SaveProcessedData
  \/ LoadData
  \/ Main

Spec == Init /\ [][Next]_vars

(***************************************************************************)
(* Properties.                                                             *)
(***************************************************************************)
\* the processed table of the processor, when there is one
PD == processor[1].processed_data[1]

Max0(x) == IF x >= 0 THEN x ELSE 0

RECURSIVE SumOver(_, _)
SumOver(S, f) ==
  IF S = {} THEN 0
  ELSE LET x == CHOOSE y \in S : TRUE IN f[x] + SumOver(S \ {x}, f)

\* the rows of the same country with an earlier date
Earlier(df, i) ==
  {j \in DOMAIN df : df[j].Country = df[i].Country /\ DateLT(df[j].Date, df[i].Date)}

\* the latest of them
Previous(df, i) ==
  CHOOSE j \in Earlier(df, i) : \A k \in Earlier(df, i) : DateLE(df[k].Date, df[j].Date)

\* C1: after process_global_data, on every row daily_confirmed and
\* daily_deaths are max(0, this row's count minus the count on the country's
\* previous date), and 0 on the country's first date; never a difference
\* across two countries.
C1_DailyIsClippedDifferencePerCountry ==
  Processed =>
    \A i \in DOMAIN PD :
      IF Earlier(PD, i) = {}
      THEN PD[i].daily_confirmed = 0 /\ PD[i].daily_deaths = 0
      ELSE /\ PD[i].daily_confirmed = Max0(PD[i].confirmed - PD[Previous(PD, i)].confirmed)
           /\ PD[i].daily_deaths = Max0(PD[i].deaths - PD[Previous(PD, i)].deaths)

\* a country's count falls from one date to the next, another country's rises,
\* and a country's first row follows a row of another country with another count
C1_Witness ==
  /\ Processed
  /\ \E i \in DOMAIN PD :
       /\ Earlier(PD, i) # {}
       /\ PD[i].confirmed < PD[Previous(PD, i)].confirmed
  /\ \E i \in DOMAIN PD :
       /\ Earlier(PD, i) # {}
       /\ PD[i].deaths > PD[Previous(PD, i)].deaths
       /\ PD[i].daily_deaths > 0
  /\ \E i \in DOMAIN PD :
       /\ i > 1
       /\ Earlier(PD, i) = {}
       /\ PD[i - 1].Country # PD[i].Country
       /\ PD[i].confirmed > PD[i - 1].confirmed

\* C2: in every processed row daily_confirmed, daily_deaths and active are
\* not negative.
C2_DerivedCountsNonNegative ==
  Processed =>
    \A i \in DOMAIN PD :
      PD[i].daily_confirmed >= 0 /\ PD[i].daily_deaths >= 0 /\ PD[i].active >= 0

\* a falling series and a row with deaths + recovered over confirmed
C2_Witness ==
  /\ Processed
  /\ \E i \in DOMAIN PD :
       /\ Earlier(PD, i) # {}
       /\ PD[i].deaths < PD[Previous(PD, i)].deaths
  /\ \E i \in DOMAIN PD : PD[i].deaths + PD[i].recovered > PD[i].confirmed

\* C3: in every processed row active is max(0, confirmed - deaths -
\* recovered) of that row.
C3_ActiveIsClippedRemainder ==
  Processed =>
    \A i \in DOMAIN PD :
      LET rest == PD[i].confirmed - PD[i].deaths - PD[i].recovered
      IN  (rest >= 0 => PD[i].active = rest) /\ (rest < 0 => PD[i].active = 0)

\* a row with a positive remainder, recovered among it, and a clipped row
C3_Witness ==
  /\ Processed
  /\ \E i \in DOMAIN PD :
       PD[i].recovered > 0 /\ PD[i].deaths > 0 /\ PD[i].active > 0
  /\ \E i \in DOMAIN PD :
       PD[i].confirmed - PD[i].deaths - PD[i].recovered < 0

\* rate (hundredths of a percent) is part / confirmed * 100 to two decimals:
\* no other multiple of 0.01 is nearer
NearestHundredth(rate, part, confirmed) ==
  LET err == rate * confirmed - 10000 * part
  IN  2 * (IF err >= 0 THEN err ELSE -err) <= confirmed

\* C4: fatality_rate and recovery_rate are 0 on a row whose confirmed is 0,
\* and else deaths / confirmed * 100 and recovered / confirmed * 100 rounded
\* to two decimals.
C4_RatesGuardedAndRounded ==
  Processed =>
    \A i \in DOMAIN PD :
      IF PD[i].confirmed = 0
      THEN PD[i].fatality_rate = 0 /\ PD[i].recovery_rate = 0
      ELSE /\ NearestHundredth(PD[i].fatality_rate, PD[i].deaths, PD[i].confirmed)
           /\ NearestHundredth(PD[i].recovery_rate, PD[i].recovered, PD[i].confirmed)

\* 2/3 rounds up to 66.67, 1/3 down to 33.33
C4_Witness ==
  /\ Processed
  /\ \E i \in DOMAIN PD :
       /\ PD[i].confirmed = 3 /\ PD[i].deaths = 2 /\ PD[i].recovered = 1
       /\ PD[i].fatality_rate = 6667 /\ PD[i].recovery_rate = 3333

\* the ten characters of strftime read back as a date
ReadDate(text) ==
  << 1000 * text[1] + 100 * text[2] + 10 * text[3] + text[4],
     10 * text[6] + text[7], 10 * text[9] + text[10] >>

LatestRows(df) ==
  {i \in DOMAIN df : \A j \in DOMAIN df : DateLE(df[j].Date, df[i].Date)}

SummaryOfLatest(df, summary) ==
  LET I == LatestRows(df)
  IN  /\ summary.total_confirmed = SumOver(I, [i \in I |-> df[i].confirmed])
      /\ summary.total_deaths = SumOver(I, [i \in I |-> df[i].deaths])
      /\ summary.total_recovered = SumOver(I, [i \in I |-> df[i].recovered])
      /\ summary.total_active = SumOver(I, [i \in I |-> df[i].active])
      /\ summary.countries = Cardinality(I)
      /\ \A i \in I : ReadDate(summary.date) = df[i].Date

\* C5: get_global_summary's totals are the sums over the rows of the latest
\* date, countries their number and date that date.
C5_GlobalSummaryOfLatestDate ==
  /\ (last.op = "get_global_summary" /\ last.outcome = "ok")
       => SummaryOfLatest(PD, last.value)
  /\ view.global_summary # None => SummaryOfLatest(PD, view.global_summary[1])

\* two countries on the latest date, and counts on an earlier date
C5_Witness ==
  /\ last.op = "get_global_summary"
  /\ last.outcome = "ok"
  /\ last.value.countries = 2
  /\ last.value.total_confirmed = 2
  /\ \E i \in DOMAIN PD : i \notin LatestRows(PD) /\ PD[i].confirmed > 0 /\ PD[i].active > 0

\* the (country, date) pairs of a wide table
PairsOf(wide) ==
  { <<wide.rows[i][2], ToDatetime(wide.columns[j])>> :
      i \in DOMAIN wide.rows, j \in (FirstDateCol + 1)..Len(wide.columns) }

AllPairs(raw) == PairsOf(raw["confirmed"]) \cup PairsOf(raw["deaths"]) \cup PairsOf(raw["recovered"])

\* C6: the processed table has exactly one row for each (Country, Date) pair
\* of the three indicator tables: none twice, none dropped, none invented.
C6_OneRowPerPair ==
  Processed =>
    /\ {<<PD[i].Country, PD[i].Date>> : i \in DOMAIN PD} = AllPairs(processor[1].raw_data)
    /\ Len(PD) = Cardinality(AllPairs(processor[1].raw_data))

\* a pair only deaths has, a pair only confirmed has and a pair confirmed
\* and recovered share
C6_Witness ==
  /\ Processed
  /\ LET raw == processor[1].raw_data
     IN  /\ PairsOf(raw["deaths"]) \ (PairsOf(raw["confirmed"]) \cup PairsOf(raw["recovered"])) # {}
         /\ PairsOf(raw["confirmed"]) \ (PairsOf(raw["deaths"]) \cup PairsOf(raw["recovered"])) # {}
         /\ PairsOf(raw["confirmed"]) \cap PairsOf(raw["recovered"]) # {}

\* C7: download_data tries confirmed, deaths, recovered in that order, stops
\* at the first failure and returns None, returns the dictionary of all three
\* only when all three succeeded; load_data then returns None and no
\* processor runs.
C7_DownloadShortCircuits ==
  LET n == Len(attempted)
  IN  /\ n <= Len(Keys)
      /\ \A i \in 1..n : attempted[i].key = Keys[i]
      /\ \A i \in 1..(n - 1) : attempted[i].outcome = "ok"
      /\ pc = "download" =>
           /\ raw_data = None
           /\ \A i \in 1..n : attempted[i].outcome = "ok"
      /\ pc = "returned" =>
           /\ n >= 1
           /\ IF attempted[n].outcome = "ok"
              THEN /\ n = Len(Keys)
                   /\ raw_data # None
                   /\ DOMAIN raw_data[1] = Range(Keys)
              ELSE raw_data = None
      /\ raw_data = None => processor = None /\ loaded # "ok"
      /\ (last.op = "load_data" /\ raw_data = None) => loaded = "failed"

\* the second file fails after the first was read and saved
C7_Witness ==
  /\ pc = "returned"
  /\ Len(attempted) = 2
  /\ attempted[2].outcome = "fetch_failed"
  /\ FileOf("confirmed") \in disk
  /\ raw_data = None
  /\ loaded = "failed"
  /\ view.status = "stopped"

\* C8: the countries used for the comparison charts are at most 10: the first
\* 10 of the selection when more are selected, the selection itself otherwise.
C8_SelectionCappedAtTen ==
  view.status = "rendered" =>
    /\ Len(view.selected_countries) <= 10
    /\ IF Len(view.multiselect) > 10
       THEN view.selected_countries = [i \in 1..10 |-> view.multiselect[i]]
       ELSE view.selected_countries = view.multiselect
    /\ \A i \in DOMAIN view.chart_rows :
         \E k \in DOMAIN view.selected_countries :
           view.chart_rows[i].Country = view.selected_countries[k]

\* eleven countries picked, not in the order of the options
C8_Witness ==
  /\ view.status = "rendered"
  /\ Len(view.multiselect) = 11
  /\ view.multiselect[1] = 3
  /\ Len(view.chart_rows) = 10

\* the sum of a date column over a country's rows of a wide table
RawTotal(wide, country, date) ==
  LET cols == {j \in (FirstDateCol + 1)..Len(wide.columns) : ToDatetime(wide.columns[j]) = date}
      mine == {i \in DOMAIN wide.rows : wide.rows[i][2] = country}
      cells == mine \X cols
  IN  SumOver(cells, [c \in cells |-> wide.rows[c[1]][c[2]]])

\* C9: every cumulative count of the processed table is the sum of that
\* date's column over the country's rows of the indicator's wide table, and 0
\* when that table has no such (country, date).
C9_CumulativeIsSumOverProvinces ==
  Processed =>
    \A i \in DOMAIN PD : \A k \in Range(Keys) :
      LET wide == processor[1].raw_data[k]
      IN  /\ PD[i][k] = RawTotal(wide, PD[i].Country, PD[i].Date)
          /\ <<PD[i].Country, PD[i].Date>> \notin PairsOf(wide) => PD[i][k] = 0

\* two provinces of one country add up, and a pair one indicator lacks
C9_Witness ==
  /\ Processed
  /\ \E i \in DOMAIN PD : PD[i].deaths = 2 * MaxVal /\ MaxVal > 0
  /\ \E i \in DOMAIN PD :
       /\ <<PD[i].Country, PD[i].Date>> \notin PairsOf(processor[1].raw_data["deaths"])
       /\ PD[i].confirmed > 0

Guarded == {"get_country_summary", "get_global_summary", "save_processed_data"}

Methods == Guarded \cup {"process_global_data"}

\* C10: get_country_summary, get_global_summary and save_processed_data fail
\* with ValueError, changing nothing and writing no file, exactly when
\* processed_data is still None; process_global_data sets it, it stays set,
\* and none of the three changes it.
C10_GuardedUntilProcessed ==
  [][ /\ last'.op \in Guarded =>
           /\ processor' = processor
           /\ (last'.outcome = "ValueError") <=> ~Processed
           /\ last'.outcome = "ValueError" => disk' = disk
      /\ last'.op = "process_global_data" => Processed'
      /\ (Processed /\ last'.op \in Methods) => Processed'
    ]_vars

\* a summary asked of a processor that has not processed
C10_Witness ==
  /\ processor # None
  /\ ~Processed
  /\ last.op = "get_global_summary"
  /\ last.outcome = "ValueError"
  /\ disk = {FileOf(Keys[i]) : i \in DOMAIN Keys}

====
